---------------------------- MODULE Spec2Model ----------------------------
(* State-machine model of the GPU-driven sparse-voxel-octree builder        *)
(* (SvoBuilder): command-buffer recording, the per-chunk build sequence,    *)
(* the chunk memory allocator and the chunks lookup buffer.                 *)
EXTENDS Integers, Sequences, FiniteSets, TLC

(***************************************************************************)
(* Bounds of the model.                                                    *)
(***************************************************************************)
\* chunkVoxelDim ranges over 2^1 .. 2^MaxLevelCount
MaxLevelCount == 3
\* each chunk-grid dimension ranges over 1 .. MaxChunkDim
MaxChunkDim == 2
\* grids with at most this many chunks are explored
MaxChunks == 4
\* number of buildScene() runs (direct or through update()) in a session
MaxBuilds == 2
\* fragment counts the voxel-creation stage may produce: 0 .. MaxFragments
MaxFragments == 2
\* capacity in bytes given to the chunk memory allocator (stands for the
\* 2 GiB of SvoBuilder::init, scaled so that exhaustion is reachable)
PoolBytes == 96
\* context objects constructed over a run, and GLFW windows to construct
\* them with
MaxInstances == 4
\* longest time, in milliseconds, one _buildChunk takes
MaxDurationMs == 2
MaxGlfwWindows == 2

(***************************************************************************)
(* Program constants.                                                      *)
(***************************************************************************)
SizeofUint32 == 4
\* "empty" entry of the chunks lookup, and a word left by uninitialised memory
Empty == 0 - 1
StaleWord == 3

VARIABLES
  pc,                              \* position of the CPU thread
  chunkVoxelDim, chunkDim,         \* configuration (_loadConfig)
  voxelLevelCount,
  fragmentListCreationCommandBuffer,
  octreeCreationCommandBuffer,
  cmdBuffer,                       \* single-time copy-out command buffer
  counterBuffer, octreeBuildInfoBuffer,
  indirectAllocNumBuffer, indirectFragLengthBuffer,
  fragmentListInfoBuffer, chunksInfoBuffer,
  octreeBufferLengthBuffer, octreeBufferWriteOffsetBuffer,
  chunksBuffer,                    \* the chunks lookup, one word per chunk
  allocUsed, allocations,          \* chunk memory allocator
  fieldImages,                     \* _chunkIndexToFieldImagesMap keys
  timelineFence, queue,            \* fence state, submission pending on the GPU
  cur,                             \* chunk index of the running _buildChunk
  builds,                          \* completed buildScene() runs
  log,                             \* what _buildChunk did for chunk cur
  visited,                         \* chunks _buildChunk was called for in this run
  gpuDone,                         \* commands of cmdBuffer the GPU has completed
  appendedOctreeBuffer,            \* regions of the shared buffer copied into,
                                   \* each with the octree it holds
  octreeWrites,                    \* slot ranges of _chunkOctreeBuffer the stages of
                                   \* this chunk's octree build wrote
  allocatedCommandBuffers,         \* command buffers the builder allocated from the
                                   \* pool and has not freed
  window,                          \* the Window object and its GLFW window
  ndebug,                          \* whether the build defines NDEBUG (assert is empty)
  windowCall,                      \* the last member function called on the window
  toggleTrace,                     \* styles seen over consecutive toggleWindowStyle calls
  sInstance,                       \* VulkanApplicationContext::sInstance
  constructed,                     \* every context object constructed so far
  contextResult,                   \* outcome of the last static call on the context
  statsPc, statsChunkDim, statsCur,       \* buildScene's timing loop
  minTimeMs, maxTimeMs, avgTimeMs,        \* its three uint32_t locals
  sumOfDurations,                  \* the durations measured, summed
  computePipeline,                 \* the pipeline object that records
  recorded                         \* the command buffer the pipeline records into

vars == <<pc, chunkVoxelDim, chunkDim, voxelLevelCount,
          fragmentListCreationCommandBuffer, octreeCreationCommandBuffer,
          cmdBuffer, counterBuffer, octreeBuildInfoBuffer,
          indirectAllocNumBuffer, indirectFragLengthBuffer,
          fragmentListInfoBuffer, chunksInfoBuffer,
          octreeBufferLengthBuffer, octreeBufferWriteOffsetBuffer,
          chunksBuffer, allocUsed, allocations, fieldImages,
          timelineFence, queue, cur, builds, log, visited,
          gpuDone, appendedOctreeBuffer, octreeWrites,
          allocatedCommandBuffers,
          window, ndebug, windowCall, toggleTrace,
          sInstance, constructed, contextResult,
          statsPc, statsChunkDim, statsCur, minTimeMs, maxTimeMs, avgTimeMs,
          sumOfDurations, computePipeline, recorded>>

(***************************************************************************)
(* Pure helpers.                                                           *)
(***************************************************************************)
RECURSIVE Pow(_, _)
Pow(b, e) == IF e = 0 THEN 1 ELSE b * Pow(b, e - 1)

\* static_cast<uint32_t>(std::log2(n)): floor of the base-2 logarithm
RECURSIVE Log2(_)
Log2(n) == IF n <= 1 THEN 0 ELSE 1 + Log2(n \div 2)

\* the least count of groups of w that covers t, in the integer arithmetic
\* of the shaders
CeilDiv(t, w) == (t + w - 1) \div w

\* bits in the significand of a float
FloatSignificandBits == 24

\* (float)n for an unsigned integer n: the nearest value with a significand
\* of 24 bits, a tie going to the even significand
ToFloat(n) ==
  IF n < Pow(2, FloatSignificandBits) THEN n
  ELSE LET ulp == Pow(2, Log2(n) - (FloatSignificandBits - 1))
           lo == (n \div ulp) * ulp
           rest == n - lo
       IN IF 2 * rest < ulp THEN lo
          ELSE IF 2 * rest > ulp THEN lo + ulp
          ELSE IF (lo \div ulp) % 2 = 0 THEN lo ELSE lo + ulp

\* std::ceil(a / b) for floats a and b of integer value, b > 0: the quotient
\* is rounded to a float, then raised to the next integer
CeilOfFloatQuotient(a, b) ==
  LET k == a \div b
      r == a % b
  IN IF r = 0 THEN ToFloat(k)
     ELSE IF k >= Pow(2, FloatSignificandBits - 1)
       THEN \* the floats of this size are integers: a multiple of ulp
            LET ulp == Pow(2, Log2(k) - (FloatSignificandBits - 1))
                m == k \div ulp
                rest == a - m * ulp * b
            IN IF 2 * rest < ulp * b THEN m * ulp
               ELSE IF 2 * rest > ulp * b THEN (m + 1) * ulp
               ELSE IF m % 2 = 0 THEN m * ulp ELSE (m + 1) * ulp
     ELSE IF k = 0 THEN 1
       ELSE \* the quotient k + r/b rounds down to k when r/b is below half
            \* an ulp (2 / scale), or is half an ulp and k's significand even
            LET scale == Pow(2, FloatSignificandBits - Log2(k))
            IN IF r <= (b - 1) \div scale THEN k
               ELSE IF b % scale = 0 /\ r = b \div scale
                         /\ (k * (scale \div 2)) % 2 = 0 THEN k
               ELSE k + 1

\* std::ceil((float)t / (float)w), then converted to the uint32_t that
\* vkCmdDispatch takes
CeilFloatDiv(t, w) == CeilOfFloatQuotient(ToFloat(t), ToFloat(w))

Cube(n) == n * n * n


(***************************************************************************)
(* Command buffers: a recorded command buffer is the sequence of its       *)
(* commands.  Every command is a record with the same fields.              *)
(***************************************************************************)
NoCmd == [op |-> "none", pipeline |-> "none", threads |-> <<0, 0, 0>>,
          groups |-> <<0, 0, 0>>, buffer |-> "none", offset |-> 0,
          srcStage |-> {}, dstStage |-> {}, srcAccess |-> {}, dstAccess |-> {},
          copySrc |-> "none", copyDst |-> "none", srcOffset |-> 0,
          dstOffset |-> 0, size |-> 0]

\* WorkGroupSize each pipeline is created with
WorkGroupSize(pipeline) ==
  CASE pipeline \in {"chunksBuilder", "chunkFieldConstruction", "chunkVoxelCreation"}
         -> <<8, 8, 8>>
    [] pipeline \in {"chunkModifyArg", "modifyArg"} -> <<1, 1, 1>>
    [] pipeline \in {"initNode", "tagNode", "allocNode"} -> <<64, 1, 1>>

\* ComputePipeline::recordCommand: bind, then vkCmdDispatch of ceil(t/w) groups
recordCommand(pipeline, tx, ty, tz) ==
  [NoCmd EXCEPT !.op = "dispatch", !.pipeline = pipeline,
                !.threads = <<tx, ty, tz>>,
                !.groups = <<CeilFloatDiv(tx, WorkGroupSize(pipeline)[1]),
                             CeilFloatDiv(ty, WorkGroupSize(pipeline)[2]),
                             CeilFloatDiv(tz, WorkGroupSize(pipeline)[3])>>]

\* ComputePipeline::recordIndirectCommand: vkCmdDispatchIndirect(buffer, 0)
recordIndirectCommand(pipeline, indirectBuffer) ==
  [NoCmd EXCEPT !.op = "dispatchIndirect", !.pipeline = pipeline,
                !.buffer = indirectBuffer, !.offset = 0]

\* VkMemoryBarrier shaderAccessBarrier
shaderAccessBarrier ==
  [srcAccessMask |-> {"SHADER_WRITE"},
   dstAccessMask |-> {"SHADER_READ", "SHADER_WRITE"}]

\* VkMemoryBarrier indirectReadBarrier
indirectReadBarrier ==
  [srcAccessMask |-> {"SHADER_WRITE"},
   dstAccessMask |-> {"INDIRECT_COMMAND_READ"}]

vkCmdPipelineBarrier(srcStageMask, dstStageMask, memoryBarrier) ==
  [NoCmd EXCEPT !.op = "barrier", !.srcStage = srcStageMask,
                !.dstStage = dstStageMask,
                !.srcAccess = memoryBarrier.srcAccessMask,
                !.dstAccess = memoryBarrier.dstAccessMask]

\* vkCmdCopyBuffer with one VkBufferCopy {srcOffset, dstOffset, size}
vkCmdCopyBuffer(srcBuffer, dstBuffer, bufCopy) ==
  [NoCmd EXCEPT !.op = "copy", !.copySrc = srcBuffer, !.copyDst = dstBuffer,
                !.srcOffset = bufCopy[1], !.dstOffset = bufCopy[2],
                !.size = bufCopy[3]]

\* the compute-to-compute barrier recorded after a stage whose writes the
\* next stage consumes
ComputeBarrier ==
  vkCmdPipelineBarrier({"COMPUTE_SHADER"}, {"COMPUTE_SHADER"}, shaderAccessBarrier)

\* variant: the shader access barrier is passed in place of the indirect one
IndirectBarrierShaderAccess ==
  vkCmdPipelineBarrier({"COMPUTE_SHADER"}, {"DRAW_INDIRECT", "COMPUTE_SHADER"},
                       shaderAccessBarrier)

\* the barrier recorded after a stage that writes indirect-dispatch arguments
IndirectBarrier ==
  vkCmdPipelineBarrier({"COMPUTE_SHADER"}, {"DRAW_INDIRECT", "COMPUTE_SHADER"},
                       indirectReadBarrier)

\* variant: the field is sampled on the cells, not on the lattice points
recordFragmentListFieldOverCells(voxelDim) ==
  << recordCommand("chunkFieldConstruction", voxelDim, voxelDim, voxelDim),
     ComputeBarrier,
     recordCommand("chunkVoxelCreation", voxelDim, voxelDim, voxelDim),
     ComputeBarrier >>

\* SvoBuilder::_recordFragmentListCreationCommandBuffer
recordFragmentListCreationCommandBuffer(voxelDim) ==
  << recordCommand("chunkFieldConstruction", voxelDim + 1, voxelDim + 1, voxelDim + 1),
     ComputeBarrier,
     recordCommand("chunkVoxelCreation", voxelDim, voxelDim, voxelDim),
     ComputeBarrier >>

\* variant: the last level is treated like the others
NotLastLevelAlways(level, levelCount) ==
  level # levelCount

\* variant: no level allocates
NotLastLevelNever(level, levelCount) == FALSE

\* "not last level": level != _voxelLevelCount - 1 (evaluated only inside the
\* loop, where levelCount >= 1, so the unsigned subtraction does not wrap)
NotLastLevel(level, levelCount) ==
  level # levelCount - 1

\* variant: no barrier between init-node and tag-node
LevelCommandsNoInitBarrier(level, levelCount) ==
  << recordIndirectCommand("initNode", "indirectAllocNumBuffer"),
     recordIndirectCommand("tagNode", "indirectFragLengthBuffer") >>
  \o (IF level # levelCount - 1
        THEN << ComputeBarrier,
                recordIndirectCommand("allocNode", "indirectAllocNumBuffer"),
                ComputeBarrier,
                recordCommand("modifyArg", 1, 1, 1),
                ComputeBarrier,
                IndirectBarrier >>
        ELSE << >>)

\* variant: modify-arg is recorded ahead of alloc-node
LevelCommandsModifyArgFirst(level, levelCount) ==
  << recordIndirectCommand("initNode", "indirectAllocNumBuffer"),
     ComputeBarrier,
     recordIndirectCommand("tagNode", "indirectFragLengthBuffer") >>
  \o (IF level # levelCount - 1
        THEN << ComputeBarrier,
                recordCommand("modifyArg", 1, 1, 1),
                ComputeBarrier,
                recordIndirectCommand("allocNode", "indirectAllocNumBuffer"),
                ComputeBarrier,
                IndirectBarrier >>
        ELSE << >>)

\* the commands one iteration of the level loop records
LevelCommands(level, levelCount) ==
  << recordIndirectCommand("initNode", "indirectAllocNumBuffer"),
     ComputeBarrier,
     recordIndirectCommand("tagNode", "indirectFragLengthBuffer") >>
  \o (IF NotLastLevel(level, levelCount)
        THEN << ComputeBarrier,
                recordIndirectCommand("allocNode", "indirectAllocNumBuffer"),
                ComputeBarrier,
                recordCommand("modifyArg", 1, 1, 1),
                ComputeBarrier,
                IndirectBarrier >>
        ELSE << >>)

\* variant: the loop stops one level early
RECURSIVE LevelLoopOneShort(_, _)
LevelLoopOneShort(level, levelCount) ==
  IF level < levelCount - 1
    THEN LevelCommands(level, levelCount) \o LevelLoopOneShort(level + 1, levelCount)
    ELSE << >>

\* for (level = 0; level < _voxelLevelCount; level++)
RECURSIVE LevelLoop(_, _)
LevelLoop(level, levelCount) ==
  IF level < levelCount
    THEN LevelCommands(level, levelCount) \o LevelLoop(level + 1, levelCount)
    ELSE << >>

\* SvoBuilder::_recordOctreeCreationCommandBuffer
recordOctreeCreationCommandBuffer(levelCount) ==
  << recordCommand("chunkModifyArg", 1, 1, 1),
     ComputeBarrier,
     IndirectBarrier >>
  \o LevelLoop(0, levelCount)


(***************************************************************************)
(* Chunk grid.                                                             *)
(***************************************************************************)
ChunkCount(dim) == dim[1] * dim[2] * dim[3]

\* position of chunk c in the chunks lookup: x + y * dimX + z * dimX * dimY
LinearIndex(c, dim) == c[1] + c[2] * dim[1] + c[3] * dim[1] * dim[2]

\* variant: the loops are nested with y innermost and x in the middle
NextChunkYInnermost(c, dim) ==
  IF c[2] + 1 < dim[2] THEN <<c[1], c[2] + 1, c[3]>>
  ELSE IF c[1] + 1 < dim[1] THEN <<c[1] + 1, 0, c[3]>>
  ELSE <<0, 0, c[3] + 1>>

\* the three nested loops of buildScene, x innermost, z outermost;
\* <<0, 0, dimZ>> is the position after the last chunk
NextChunk(c, dim) ==
  IF c[1] + 1 < dim[1] THEN <<c[1] + 1, c[2], c[3]>>
  ELSE IF c[2] + 1 < dim[2] THEN <<0, c[2] + 1, c[3]>>
  ELSE <<0, 0, c[3] + 1>>

LoopDone(c, dim) == ~(c[3] < dim[3])

(***************************************************************************)
(* Chunk memory allocator: bump allocation from one capacity.              *)
(***************************************************************************)
\* CustomMemoryAllocator::allocate(size): the range handed out, or exhaustion
allocate(used, capacity, sizeInBytes) ==
  IF sizeInBytes > capacity - used
    THEN [ok |-> FALSE, offset |-> 0, length |-> 0, used |-> used]
    ELSE [ok |-> TRUE, offset |-> used, length |-> sizeInBytes,
          used |-> used + sizeInBytes]

(***************************************************************************)
(* GPU side: the effect of the compute stages on the transient buffers.    *)
(* A GPU state is the record of the buffers the stages read and write.     *)
(***************************************************************************)
\* chunkVoxelCreation.comp over the cells of the chunk: n occupied cells
\* append n fragments
ShaderVoxelCreation(g, n) ==
  [g EXCEPT !.fragmentListInfo.voxelFragmentCount = @ + n]

\* chunkModifyArg.comp: indirect arguments of the tag stage from the
\* fragment count
ShaderChunkModifyArg(g) ==
  [g EXCEPT !.indirectFragLength =
              <<CeilDiv(g.fragmentListInfo.voxelFragmentCount, 64), 1, 1>>]

\* the slots of the current alloc window, as written by a stage
WindowWrite(g, stage, tagged) ==
  [stage |-> stage, level |-> g.level, begin |-> g.buildInfo.allocBegin,
   num |-> g.buildInfo.allocNum, tagged |-> tagged]

\* octreeInitNode.comp: the slots of the current window are set to empty
ShaderInitNode(g) ==
  [g EXCEPT !.writes = Append(@, WindowWrite(g, "initNode", 0))]

\* octreeTagNode.comp at one level: `tagged` slots of the current window
\* are marked
ShaderTagNode(g, tagged) ==
  [g EXCEPT !.tagged = tagged,
            !.writes = Append(@, WindowWrite(g, "tagNode", 0))]

\* octreeAllocNode.comp: every tagged slot of the current window receives a
\* block of 8 child slots
ShaderAllocNode(g) ==
  [g EXCEPT !.counter = @ + g.tagged,
            !.writes = Append(@, WindowWrite(g, "allocNode", g.tagged))]

\* octreeModifyArg.comp: the next window starts where the current one ends
ShaderModifyArg(g) ==
  LET begin == g.buildInfo.allocBegin + g.buildInfo.allocNum
      num   == g.counter * 8 - begin
  IN [g EXCEPT !.buildInfo = [allocBegin |-> begin, allocNum |-> num],
               !.indirectAllocNum = <<CeilDiv(num, 64), 1, 1>>,
               !.octreeLength = @ + num,
               !.level = @ + 1]

\* one command executed on the GPU; env.fragments is what the field yields,
\* env.tags[L + 1] the number of slots tagged at level L
ExecCommand(cmd, g, env) ==
  CASE cmd.op = "barrier" -> g
    [] cmd.op = "copy" -> g
    [] cmd.pipeline = "chunkFieldConstruction" -> g
    [] cmd.pipeline = "chunkVoxelCreation" -> ShaderVoxelCreation(g, env.fragments)
    [] cmd.pipeline = "chunkModifyArg" -> ShaderChunkModifyArg(g)
    [] cmd.pipeline = "initNode" -> ShaderInitNode(g)
    [] cmd.pipeline = "tagNode" -> ShaderTagNode(g, env.tags[g.level + 1])
    [] cmd.pipeline = "allocNode" -> ShaderAllocNode(g)
    [] cmd.pipeline = "modifyArg" -> ShaderModifyArg(g)
    [] OTHER -> g

\* a command buffer executed in submission order
RECURSIVE ExecCommands(_, _, _)
ExecCommands(cmds, g, env) ==
  IF cmds = << >> THEN g
  ELSE ExecCommands(Tail(cmds), ExecCommand(Head(cmds), g, env), env)

Min(a, b) == IF a < b THEN a ELSE b

Max(a, b) == IF a < b THEN b ELSE a

\* the cells the voxel-creation dispatch works on: the threads launched
\* (whole work groups) that lie inside the voxel resolution the shader is
\* given
ActiveCells(cmd, fragmentListInfo) ==
  Min(cmd.groups[1] * WorkGroupSize(cmd.pipeline)[1], fragmentListInfo.voxelResolution)
  * Min(cmd.groups[2] * WorkGroupSize(cmd.pipeline)[2], fragmentListInfo.voxelResolution)
  * Min(cmd.groups[3] * WorkGroupSize(cmd.pipeline)[3], fragmentListInfo.voxelResolution)

\* the field that marks the corner voxels of a chunk of edge dim
CornerField(dim) == {0, dim - 1} \X {0, dim - 1} \X {0, dim - 1}

\* the slots a field makes the tag stage mark: at level L (from 1, the
\* root's children) one slot for every block of edge 2^(levelCount - L)
\* that holds an occupied cell
TagsOfField(cells, levelCount) ==
  [L \in 1..levelCount |->
     Cardinality({ <<c[1] \div Pow(2, levelCount - L),
                     c[2] \div Pow(2, levelCount - L),
                     c[3] \div Pow(2, levelCount - L)>> : c \in cells })]

\* fragment counts a field can yield: one fragment per occupied cell, from
\* none up to MaxFragments, the corner voxels, or every cell occupied
FragmentChoices(cmds, fragmentListInfo) ==
  UNION { { n \in (0..MaxFragments)
                  \cup {Cardinality(CornerField(fragmentListInfo.voxelResolution))}
                  \cup {ActiveCells(cmds[i], fragmentListInfo)} :
              n <= ActiveCells(cmds[i], fragmentListInfo) } :
          i \in { k \in 1..Len(cmds) : cmds[k].pipeline = "chunkVoxelCreation" } }

\* tag counts an occupancy pattern of `fragments` voxels can produce, level
\* by level: a slot of level L covers 8^(levelCount - 1 - L) cells, so level
\* L tags at least fragments / 8^(levelCount - 1 - L) slots, at least as
\* many as its parent level, at most 8 per parent slot, at most 8^(L + 1)
\* and at most one per fragment
RECURSIVE TagSeqs(_, _, _)
TagSeqs(fragments, levelCount, L) ==
  IF L = 0 THEN { << >> }
  ELSE { Append(s, v) :
           s \in TagSeqs(fragments, levelCount, L - 1),
           v \in CeilDiv(fragments, Pow(8, levelCount - L))
                   ..Min(fragments, Pow(8, L)) }

PatternTags(fragments, levelCount) ==
  { t \in TagSeqs(fragments, levelCount, levelCount) :
      \A L \in 2..levelCount : t[L] >= t[L - 1] /\ t[L] <= 8 * t[L - 1] }

\* the tag counts of the fields built: every pattern of up to MaxFragments
\* cells, every cell occupied, and of the patterns with as many cells as
\* the chunk has corners the corner field
TagChoices(fragments, levelCount) ==
  IF fragments <= MaxFragments \/ fragments = Pow(8, levelCount)
    THEN PatternTags(fragments, levelCount)
    ELSE { t \in PatternTags(fragments, levelCount) :
             \A L \in 1..levelCount :
               t[L] = TagsOfField(CornerField(Pow(2, levelCount)), levelCount)[L] }


(***************************************************************************)
(* CPU side: SvoBuilder.                                                   *)
(***************************************************************************)
transient == <<counterBuffer, octreeBuildInfoBuffer, indirectAllocNumBuffer,
               indirectFragLengthBuffer, fragmentListInfoBuffer,
               chunksInfoBuffer, octreeBufferLengthBuffer>>
config == <<chunkVoxelDim, chunkDim>>
commandBuffers == <<fragmentListCreationCommandBuffer, octreeCreationCommandBuffer>>
allocator == <<allocUsed, allocations>>
gpuProgress == <<gpuDone, appendedOctreeBuffer>>
\* the state of the classes around the builder
windowVars == <<window, ndebug, windowCall, toggleTrace>>
contextVars == <<sInstance, constructed, contextResult>>
statsVars == <<statsPc, statsChunkDim, statsCur, minTimeMs, maxTimeMs, avgTimeMs,
               sumOfDurations>>
pipelineVars == <<computePipeline, recorded>>

\* chunkVoxelDim is a power of two with at least one octree level
VoxelDims == { Pow(2, k) : k \in 1..MaxLevelCount }
ChunkDims == { d \in (1..MaxChunkDim) \X (1..MaxChunkDim) \X (1..MaxChunkDim) :
                 ChunkCount(d) <= MaxChunks }
\* what the words of freshly created device memory may hold (the memory is
\* not initialised by the creation)
UninitWords == {Empty, StaleWord}

\* the buffers the compute stages read and write, as one GPU state
GpuState ==
  [counter |-> counterBuffer, buildInfo |-> octreeBuildInfoBuffer,
   indirectAllocNum |-> indirectAllocNumBuffer,
   indirectFragLength |-> indirectFragLengthBuffer,
   fragmentListInfo |-> fragmentListInfoBuffer,
   octreeLength |-> octreeBufferLengthBuffer, tagged |-> 0, level |-> 0,
   writes |-> << >>]

GpuWriteBack(g) ==
  /\ counterBuffer' = g.counter
  /\ octreeBuildInfoBuffer' = g.buildInfo
  /\ indirectAllocNumBuffer' = g.indirectAllocNum
  /\ indirectFragLengthBuffer' = g.indirectFragLength
  /\ fragmentListInfoBuffer' = g.fragmentListInfo
  /\ octreeBufferLengthBuffer' = g.octreeLength

\* state after the constructor: configuration loaded, fence created unsignaled
\* no Window has been constructed
NoWindow ==
  /\ window = [life |-> "unconstructed", mWindowStyle |-> "kNone",
               mCursorState |-> "kInvisible", monitor |-> "none",
               constructedWith |-> "kNone"]
  /\ ndebug = FALSE
  /\ windowCall = [op |-> "none", newStyle |-> "kNone"]
  /\ toggleTrace = << >>

\* std::unique_ptr<VulkanApplicationContext> sInstance = nullptr (0 is nullptr)
NoContext ==
  /\ sInstance = 0
  /\ constructed = << >>
  /\ contextResult = [call |-> "none", outcome |-> "none", pointer |-> 0]

\* buildScene's timing loop has not run
NoStatistics ==
  /\ statsPc = "none"
  /\ statsChunkDim = <<0, 0, 0>>
  /\ statsCur = <<0, 0, 0>>
  /\ minTimeMs = 0
  /\ maxTimeMs = 0
  /\ avgTimeMs = 0
  /\ sumOfDurations = 0

\* no stand-alone pipeline records commands
NoPipeline ==
  /\ computePipeline = "none"
  /\ recorded = << >>

\* no SvoBuilder exists
NoBuilder ==
  /\ pc = "none"
  /\ chunkVoxelDim = 0
  /\ chunkDim = <<0, 0, 0>>
  /\ voxelLevelCount = 0
  /\ fragmentListCreationCommandBuffer = << >>
  /\ octreeCreationCommandBuffer = << >>
  /\ cmdBuffer = << >>
  /\ counterBuffer = 0
  /\ octreeBuildInfoBuffer = 0
  /\ indirectAllocNumBuffer = << >>
  /\ indirectFragLengthBuffer = << >>
  /\ fragmentListInfoBuffer = 0
  /\ chunksInfoBuffer = 0
  /\ octreeBufferLengthBuffer = 0
  /\ octreeBufferWriteOffsetBuffer = 0
  /\ chunksBuffer = << >>
  /\ allocUsed = 0
  /\ allocations = << >>
  /\ fieldImages = {}
  /\ timelineFence = "none"
  /\ queue = "none"
  /\ cur = <<0, 0, 0>>
  /\ builds = 0
  /\ log = << >>
  /\ visited = << >>
  /\ gpuDone = {}
  /\ appendedOctreeBuffer = {}
  /\ octreeWrites = << >>
  /\ allocatedCommandBuffers = 0

builder == <<pc, config, voxelLevelCount, commandBuffers, cmdBuffer, transient,
             octreeBufferWriteOffsetBuffer, chunksBuffer, allocator, fieldImages,
             timelineFence, queue, cur, builds, log, visited, gpuProgress,
             octreeWrites, allocatedCommandBuffers>>

Init ==
  /\ pc = "constructed"
  /\ chunkVoxelDim \in VoxelDims
  /\ chunkDim \in ChunkDims
  /\ voxelLevelCount = 0
  /\ fragmentListCreationCommandBuffer = << >>
  /\ octreeCreationCommandBuffer = << >>
  /\ cmdBuffer = << >>
  /\ counterBuffer = StaleWord
  /\ octreeBuildInfoBuffer = [allocBegin |-> StaleWord, allocNum |-> StaleWord]
  /\ indirectAllocNumBuffer = <<StaleWord, StaleWord, StaleWord>>
  /\ indirectFragLengthBuffer = <<StaleWord, StaleWord, StaleWord>>
  /\ fragmentListInfoBuffer =
       [voxelResolution |-> StaleWord, voxelFragmentCount |-> StaleWord]
  /\ chunksInfoBuffer = [chunksDim |-> <<StaleWord, StaleWord, StaleWord>>,
                         currentlyWritingChunk |-> <<StaleWord, StaleWord, StaleWord>>]
  /\ octreeBufferLengthBuffer = StaleWord
  /\ octreeBufferWriteOffsetBuffer = StaleWord
  /\ chunksBuffer = << >>
  /\ allocUsed = 0
  /\ allocations = << >>
  /\ fieldImages = {}
  /\ timelineFence = "unsignaled"
  /\ queue = "idle"
  /\ cur = <<0, 0, 0>>
  /\ builds = 0
  /\ log = << >>
  /\ visited = << >>
  /\ gpuDone = {}
  /\ appendedOctreeBuffer = {}
  /\ octreeWrites = << >>
  /\ allocatedCommandBuffers = 0
  /\ NoWindow
  /\ NoContext
  /\ NoStatistics
  /\ NoPipeline

\* _recordCommandBuffers: each of the two record functions allocates a
\* command buffer from the pool and stores the handle in its member; the
\* handle the member held is not freed
recordCommandBuffersAllocated(allocated) == allocated + 1 + 1

\* SvoBuilder::init: level count, allocator, buffers, recorded command buffers
init ==
  /\ pc = "constructed"
  /\ allocatedCommandBuffers' = recordCommandBuffersAllocated(allocatedCommandBuffers)
  /\ voxelLevelCount' = Log2(chunkVoxelDim)
  /\ allocUsed' = 0
  /\ allocations' = << >>
  /\ \E w \in UninitWords :
       chunksBuffer' = [i \in 1..ChunkCount(chunkDim) |-> w]
  /\ fragmentListCreationCommandBuffer' =
       recordFragmentListCreationCommandBuffer(chunkVoxelDim)
  /\ octreeCreationCommandBuffer' =
       recordOctreeCreationCommandBuffer(Log2(chunkVoxelDim))
  /\ pc' = "idle"
  /\ UNCHANGED <<config, cmdBuffer, transient, octreeBufferWriteOffsetBuffer,
                 fieldImages, timelineFence, queue, cur, builds, log, visited, gpuProgress, octreeWrites>>
  /\ UNCHANGED <<windowVars, contextVars, statsVars, pipelineVars>>

\* variant: every build starts from a fresh allocator
buildSceneFreshAllocator ==
  /\ pc = "idle"
  /\ builds < MaxBuilds
  /\ octreeBufferWriteOffsetBuffer' = 0
  /\ allocUsed' = 0
  /\ cur' = <<0, 0, 0>>
  /\ visited' = << >>
  /\ UNCHANGED <<gpuProgress, octreeWrites>>
  /\ pc' = "chunk"
  /\ UNCHANGED <<config, voxelLevelCount, commandBuffers, cmdBuffer, transient,
                 chunksBuffer, allocations, fieldImages, timelineFence, queue,
                 builds, log>>
  /\ UNCHANGED allocatedCommandBuffers
  /\ UNCHANGED <<windowVars, contextVars, statsVars, pipelineVars>>

\* SvoBuilder::buildScene up to the first _buildChunk call
buildScene ==
  /\ pc = "idle"
  /\ builds < MaxBuilds
  /\ octreeBufferWriteOffsetBuffer' = 0
  /\ cur' = <<0, 0, 0>>
  /\ visited' = << >>
  /\ UNCHANGED <<gpuProgress, octreeWrites>>
  /\ pc' = "chunk"
  /\ UNCHANGED <<config, voxelLevelCount, commandBuffers, cmdBuffer, transient,
                 chunksBuffer, allocator, fieldImages, timelineFence, queue,
                 builds, log>>
  /\ UNCHANGED allocatedCommandBuffers
  /\ UNCHANGED <<windowVars, contextVars, statsVars, pipelineVars>>

\* variant: update() starts over with an empty allocator
updateFreshAllocator ==
  /\ pc = "idle"
  /\ builds < MaxBuilds
  /\ allocatedCommandBuffers' = recordCommandBuffersAllocated(allocatedCommandBuffers)
  /\ fragmentListCreationCommandBuffer' =
       recordFragmentListCreationCommandBuffer(chunkVoxelDim)
  /\ octreeCreationCommandBuffer' =
       recordOctreeCreationCommandBuffer(voxelLevelCount)
  /\ octreeBufferWriteOffsetBuffer' = 0
  /\ allocUsed' = 0
  /\ cur' = <<0, 0, 0>>
  /\ visited' = << >>
  /\ UNCHANGED <<gpuProgress, octreeWrites>>
  /\ pc' = "chunk"
  /\ UNCHANGED <<config, voxelLevelCount, cmdBuffer, transient,
                 chunksBuffer, allocations, fieldImages, timelineFence, queue,
                 builds, log>>
  /\ UNCHANGED <<windowVars, contextVars, statsVars, pipelineVars>>

\* SvoBuilder::update: re-record the command buffers, then buildScene
update ==
  /\ pc = "idle"
  /\ builds < MaxBuilds
  /\ allocatedCommandBuffers' = recordCommandBuffersAllocated(allocatedCommandBuffers)
  /\ fragmentListCreationCommandBuffer' =
       recordFragmentListCreationCommandBuffer(chunkVoxelDim)
  /\ octreeCreationCommandBuffer' =
       recordOctreeCreationCommandBuffer(voxelLevelCount)
  /\ octreeBufferWriteOffsetBuffer' = 0
  /\ cur' = <<0, 0, 0>>
  /\ visited' = << >>
  /\ UNCHANGED <<gpuProgress, octreeWrites>>
  /\ pc' = "chunk"
  /\ UNCHANGED <<config, voxelLevelCount, cmdBuffer, transient,
                 chunksBuffer, allocator, fieldImages, timelineFence, queue,
                 builds, log>>
  /\ UNCHANGED <<windowVars, contextVars, statsVars, pipelineVars>>


\* variant: the first block of 8 slots is not set aside
resetWithoutRootBlock(chunkIndex) ==
  [counter |-> 0,
   buildInfo |-> [allocBegin |-> 0, allocNum |-> 0],
   indirectAllocNum |-> <<1, 1, 1>>,
   indirectFragLength |-> <<1, 1, 1>>,
   fragmentListInfo |-> [voxelResolution |-> chunkVoxelDim, voxelFragmentCount |-> 0],
   chunksInfo |-> [chunksDim |-> chunkDim, currentlyWritingChunk |-> chunkIndex],
   octreeLength |-> 8]

\* variant: the voxel resolution is the edge of the field lattice
resetVoxelResolutionOfField(chunkIndex) ==
  [counter |-> 1,
   buildInfo |-> [allocBegin |-> 0, allocNum |-> 8],
   indirectAllocNum |-> <<1, 1, 1>>,
   indirectFragLength |-> <<1, 1, 1>>,
   fragmentListInfo |-> [voxelResolution |-> chunkVoxelDim + 1, voxelFragmentCount |-> 0],
   chunksInfo |-> [chunksDim |-> chunkDim, currentlyWritingChunk |-> chunkIndex],
   octreeLength |-> 8]

\* variant: the node counter and the octree length are not refilled
resetKeepsCounterAndLength(chunkIndex) ==
  [counter |-> counterBuffer,
   buildInfo |-> [allocBegin |-> 0, allocNum |-> 8],
   indirectAllocNum |-> <<1, 1, 1>>,
   indirectFragLength |-> <<1, 1, 1>>,
   fragmentListInfo |-> [voxelResolution |-> chunkVoxelDim, voxelFragmentCount |-> 0],
   chunksInfo |-> [chunksDim |-> chunkDim, currentlyWritingChunk |-> chunkIndex],
   octreeLength |-> octreeBufferLengthBuffer]

\* the number of uint32 entries _chunkOctreeBuffer is created for
ChunkOctreeBufferCapacity == chunkVoxelDim * chunkVoxelDim * chunkVoxelDim

\* the number of entries _fragmentListBuffer is created for
FragmentListCapacity == chunkVoxelDim * chunkVoxelDim * chunkVoxelDim

\* SvoBuilder::_resetBufferDataForNewChunkGeneration: the values filled into
\* the per-chunk transient buffers
resetBufferDataForNewChunkGeneration(chunkIndex) ==
  [counter |-> 1,
   buildInfo |-> [allocBegin |-> 0, allocNum |-> 8],
   indirectAllocNum |-> <<1, 1, 1>>,
   indirectFragLength |-> <<1, 1, 1>>,
   fragmentListInfo |-> [voxelResolution |-> chunkVoxelDim, voxelFragmentCount |-> 0],
   chunksInfo |-> [chunksDim |-> chunkDim, currentlyWritingChunk |-> chunkIndex],
   octreeLength |-> 8]

\* _buildChunk, first part: reset the transient buffers and submit the
\* fragment-list command buffer with the fence
buildChunkSubmitFragmentList ==
  /\ pc = "chunk"
  /\ LET r == resetBufferDataForNewChunkGeneration(cur)
     IN /\ GpuWriteBack(r)
        /\ chunksInfoBuffer' = r.chunksInfo
  /\ queue' = "fragmentList"
  /\ log' = <<"reset", "submitFragmentList">>
  /\ visited' = Append(visited, cur)
  /\ octreeWrites' = << >>
  /\ UNCHANGED gpuProgress
  /\ pc' = "waitFragmentList"
  /\ UNCHANGED <<config, voxelLevelCount, commandBuffers, cmdBuffer,
                 octreeBufferWriteOffsetBuffer, chunksBuffer, allocator,
                 fieldImages, timelineFence, cur, builds>>
  /\ UNCHANGED allocatedCommandBuffers
  /\ UNCHANGED <<windowVars, contextVars, statsVars, pipelineVars>>

\* the GPU runs the fragment-list command buffer and signals the fence
gpuExecuteFragmentList ==
  /\ queue = "fragmentList"
  /\ \E n \in FragmentChoices(fragmentListCreationCommandBuffer,
                              fragmentListInfoBuffer) :
       /\ GpuWriteBack(ExecCommands(fragmentListCreationCommandBuffer, GpuState,
                                    [fragments |-> n, tags |-> << >>]))
  /\ queue' = "idle"
  /\ timelineFence' = "signaled"
  /\ UNCHANGED <<pc, config, voxelLevelCount, commandBuffers, cmdBuffer,
                 chunksInfoBuffer, octreeBufferWriteOffsetBuffer, chunksBuffer,
                 allocator, fieldImages, cur, builds, log, visited, gpuProgress, octreeWrites>>
  /\ UNCHANGED allocatedCommandBuffers
  /\ UNCHANGED <<windowVars, contextVars, statsVars, pipelineVars>>

\* the loop bookkeeping after _buildChunk returns: next chunk, or the end of
\* buildScene
ReturnFromBuildChunk ==
  /\ cur' = NextChunk(cur, chunkDim)
  /\ IF LoopDone(NextChunk(cur, chunkDim), chunkDim)
       THEN pc' = "idle" /\ builds' = builds + 1
       ELSE pc' = "chunk" /\ builds' = builds

\* variant: the wait returns at once (timeout 0)
vkWaitForFencesNoWait(fence) == TRUE

\* vkWaitForFences with an unbounded timeout returns once the fence is
\* signaled
vkWaitForFences(fence) == fence = "signaled"

\* vkResetFences: the state the fence is left in
vkResetFences(fence) == "unsignaled"

\* variant: no early return
SkipOctreeNever(fragmentListInfo) == FALSE

\* whether _buildChunk returns early after the fragment-list readback
SkipOctree(fragmentListInfo) == fragmentListInfo.voxelFragmentCount = 0

\* _buildChunk, second part: after the fence wait, read back the fragment
\* count; return when it is 0, else create the field image and submit the
\* octree-builder command buffer
buildChunkAfterFragmentList ==
  /\ pc = "waitFragmentList"
  /\ vkWaitForFences(timelineFence)
  /\ timelineFence' = vkResetFences(timelineFence)
  /\ IF SkipOctree(fragmentListInfoBuffer)
       THEN /\ ReturnFromBuildChunk
            /\ log' = Append(log, "return")
            /\ UNCHANGED <<fieldImages, queue>>
       ELSE /\ fieldImages' = fieldImages \cup {cur}
            /\ queue' = "octree"
            /\ log' = log \o <<"createFieldImage", "submitOctree">>
            /\ pc' = "waitOctree"
            /\ UNCHANGED <<cur, builds>>
  /\ UNCHANGED <<config, voxelLevelCount, commandBuffers, cmdBuffer, transient,
                 octreeBufferWriteOffsetBuffer, chunksBuffer, allocator, visited, gpuProgress, octreeWrites>>
  /\ UNCHANGED allocatedCommandBuffers
  /\ UNCHANGED <<windowVars, contextVars, statsVars, pipelineVars>>

\* the GPU runs the octree-builder command buffer and signals the fence
gpuExecuteOctree ==
  /\ queue = "octree"
  /\ \E t \in TagChoices(fragmentListInfoBuffer.voxelFragmentCount, voxelLevelCount) :
       LET g == ExecCommands(octreeCreationCommandBuffer, GpuState,
                             [fragments |-> 0, tags |-> t])
       IN /\ GpuWriteBack(g)
          /\ octreeWrites' = g.writes
  /\ queue' = "idle"
  /\ timelineFence' = "signaled"
  /\ UNCHANGED <<pc, config, voxelLevelCount, commandBuffers, cmdBuffer,
                 chunksInfoBuffer, octreeBufferWriteOffsetBuffer, chunksBuffer,
                 allocator, fieldImages, cur, builds, log, visited, gpuProgress>>
  /\ UNCHANGED allocatedCommandBuffers
  /\ UNCHANGED <<windowVars, contextVars, statsVars, pipelineVars>>

\* variant: the element count is passed as the byte size
AllocationSizeInElements(octreeBufferLength) == octreeBufferLength

\* the size _buildChunk requests from the allocator
AllocationSize(octreeBufferLength) == octreeBufferLength * SizeofUint32

\* variant: the copy size is the element count
CopySizeInElements(octreeBufferLength) == octreeBufferLength

\* the size of the VkBufferCopy region
CopySize(octreeBufferLength) == octreeBufferLength * SizeofUint32

\* 2^32 in the scale in which PoolBytes stands for the 2 GiB of the
\* allocator: twice the capacity
Uint32Range == 2 * PoolBytes

\* variant: the offset is kept in a type with a quarter of the range
ToNarrowUint(x) == x % (Uint32Range \div 4)

\* uint32_t writeOffsetInBytes = allocResult.offset(): the conversion of a
\* size to uint32_t keeps the value modulo 2^32
ToUint32(x) == x % Uint32Range

\* the size in bytes _appendedOctreeBuffer is created with: the capacity
\* the allocator is given
AppendedOctreeBufferSize == PoolBytes

\* variant: the byte offset is written as it is
WriteOffsetInBytes(writeOffsetInBytes) == writeOffsetInBytes

\* the value filled into the write-offset buffer: the allocation's offset
\* in uint32 elements
WriteOffsetInUint32(writeOffsetInBytes) == writeOffsetInBytes \div SizeofUint32

\* variant: the octree is copied to the start of the shared buffer
CopyOutCommandsAtZero(offset, octreeBufferLength) ==
  << vkCmdCopyBuffer("chunkOctreeBuffer", "appendedOctreeBuffer",
                     <<0, 0, octreeBufferLength * SizeofUint32>>),
     recordCommand("chunksBuilder", 1, 1, 1) >>

\* the copy-out command buffer _buildChunk records for an allocation
CopyOutCommands(offset, octreeBufferLength) ==
  << vkCmdCopyBuffer("chunkOctreeBuffer", "appendedOctreeBuffer",
                     <<0, offset, CopySize(octreeBufferLength)>>),
     recordCommand("chunksBuilder", 1, 1, 1) >>

\* _buildChunk, third part: after the fence wait, read back the octree
\* length, allocate, record and submit the copy-out; exhaustion is fatal
buildChunkAfterOctree ==
  /\ pc = "waitOctree"
  /\ vkWaitForFences(timelineFence)
  /\ timelineFence' = vkResetFences(timelineFence)
  /\ LET allocResult == allocate(allocUsed, PoolBytes,
                                 AllocationSize(octreeBufferLengthBuffer))
     IN IF allocResult.ok
          THEN /\ allocUsed' = allocResult.used
               /\ allocations' = Append(allocations,
                     [offset |-> allocResult.offset, length |-> allocResult.length,
                      chunk |-> cur, build |-> builds])
               /\ cmdBuffer' = CopyOutCommands(ToUint32(allocResult.offset),
                                               octreeBufferLengthBuffer)
               /\ octreeBufferWriteOffsetBuffer' =
                    WriteOffsetInUint32(ToUint32(allocResult.offset))
               /\ gpuDone' = {}
               /\ queue' = "copyOut"
               /\ log' = log \o <<"allocate", "copy", "chunksBuilder">>
               /\ pc' = "waitIdle"
          ELSE /\ log' = Append(log, "allocateFailed")
               /\ cmdBuffer' = << >>
               /\ pc' = "fatal"
               /\ UNCHANGED <<allocator, octreeBufferWriteOffsetBuffer, queue,
                              gpuDone>>
  /\ UNCHANGED <<config, voxelLevelCount, commandBuffers, transient,
                 chunksBuffer, fieldImages, cur, builds, visited,
                 appendedOctreeBuffer, octreeWrites>>
  /\ UNCHANGED allocatedCommandBuffers
  /\ UNCHANGED <<windowVars, contextVars, statsVars, pipelineVars>>

\* chunksBuilder.comp: the entry of the chunk being written receives the
\* write offset
ShaderChunksBuilder(lookup, chunksInfo, writeOffset) ==
  [lookup EXCEPT ![LinearIndex(chunksInfo.currentlyWritingChunk,
                               chunksInfo.chunksDim) + 1] = writeOffset]

\* the pipeline stage a command executes in
StageOf(cmd) == IF cmd.op = "copy" THEN "TRANSFER" ELSE "COMPUTE_SHADER"

\* a pipeline barrier recorded between commands j and i of cmds that makes
\* command i wait for command j
BarrierBetween(cmds, j, i) ==
  \E k \in (j + 1)..(i - 1) :
    /\ cmds[k].op = "barrier"
    /\ StageOf(cmds[j]) \in cmds[k].srcStage
    /\ StageOf(cmds[i]) \in cmds[k].dstStage

\* the commands of a submitted command buffer that may complete next:
\* commands start in the recorded order but, without a barrier between
\* them, complete in any order
Executable(cmds, done) ==
  { i \in 1..Len(cmds) :
      /\ i \notin done
      /\ cmds[i].op # "barrier"
      /\ \A j \in 1..(i - 1) : BarrierBetween(cmds, j, i) => j \in done }

\* every command of the submission has completed
AllDone(cmds, done) ==
  \A i \in 1..Len(cmds) : cmds[i].op = "barrier" \/ i \in done

\* two byte ranges share a byte
Overlaps(region, offset, size) ==
  region.offset < offset + size /\ offset < region.offset + region.size

\* a buffer after `size` bytes of `data` were copied to `offset`: what the
\* bytes written held before is gone
CopyInto(buffer, offset, size, data) ==
  { region \in buffer : ~Overlaps(region, offset, size) }
    \cup {[offset |-> offset, size |-> size, data |-> data]}

\* the GPU completes one command of the submitted copy-out command buffer;
\* the queue is idle once all have completed (vkQueueWaitIdle then returns)
gpuExecuteCopyOut ==
  /\ queue = "copyOut"
  /\ \E i \in Executable(cmdBuffer, gpuDone) :
       /\ gpuDone' = gpuDone \cup {i}
       /\ chunksBuffer' =
            IF cmdBuffer[i].pipeline = "chunksBuilder"
              THEN ShaderChunksBuilder(chunksBuffer, chunksInfoBuffer,
                                       octreeBufferWriteOffsetBuffer)
              ELSE chunksBuffer
       /\ appendedOctreeBuffer' =
            IF cmdBuffer[i].op = "copy"
              THEN CopyInto(appendedOctreeBuffer, cmdBuffer[i].dstOffset,
                            cmdBuffer[i].size, [chunk |-> cur, build |-> builds])
              ELSE appendedOctreeBuffer
       /\ queue' = IF AllDone(cmdBuffer, gpuDone \cup {i}) THEN "idle" ELSE queue
  /\ UNCHANGED <<pc, config, voxelLevelCount, commandBuffers, cmdBuffer,
                 transient, octreeBufferWriteOffsetBuffer, allocator,
                 fieldImages, timelineFence, cur, builds, log, visited,
                 octreeWrites>>
  /\ UNCHANGED allocatedCommandBuffers
  /\ UNCHANGED <<windowVars, contextVars, statsVars, pipelineVars>>

\* variant: endSingleTimeCommands does not wait for the queue
vkQueueWaitIdleNoWait(q) == TRUE

\* vkQueueWaitIdle returns once nothing submitted to the queue is pending
vkQueueWaitIdle(q) == q = "idle"

\* _buildChunk, last part: endSingleTimeCommands returns once the queue is
\* idle; _buildChunk returns
buildChunkEnd ==
  /\ pc = "waitIdle"
  /\ vkQueueWaitIdle(queue)
  /\ ReturnFromBuildChunk
  /\ log' = Append(log, "return")
  /\ UNCHANGED <<config, voxelLevelCount, commandBuffers, cmdBuffer, transient,
                 octreeBufferWriteOffsetBuffer, chunksBuffer, allocator,
                 fieldImages, timelineFence, queue, visited, gpuProgress, octreeWrites>>
  /\ UNCHANGED allocatedCommandBuffers
  /\ UNCHANGED <<windowVars, contextVars, statsVars, pipelineVars>>

\* SvoBuilder::~SvoBuilder: the fence is destroyed and the two command
\* buffers whose handles the members hold are freed
destructor ==
  /\ pc = "idle"
  /\ timelineFence' = "destroyed"
  /\ allocatedCommandBuffers' = allocatedCommandBuffers - 1 - 1
  /\ pc' = "destroyed"
  /\ UNCHANGED <<config, voxelLevelCount, commandBuffers, cmdBuffer, transient,
                 octreeBufferWriteOffsetBuffer, chunksBuffer, allocator,
                 fieldImages, queue, cur, builds, log, visited, gpuProgress,
                 octreeWrites>>
  /\ UNCHANGED <<windowVars, contextVars, statsVars, pipelineVars>>

Next ==
  \/ init
  \/ buildScene
  \/ update
  \/ buildChunkSubmitFragmentList
  \/ gpuExecuteFragmentList
  \/ buildChunkAfterFragmentList
  \/ gpuExecuteOctree
  \/ buildChunkAfterOctree
  \/ gpuExecuteCopyOut
  \/ buildChunkEnd
  \/ destructor

Spec == Init /\ [][Next]_vars

(***************************************************************************)
(* VulkanApplicationContext (app-context/VulkanApplicationContext.cpp):    *)
(* the process-wide instance.  A context object is named by its index in   *)
(* constructed; 0 is nullptr.                                              *)
(***************************************************************************)
GlfwWindows == 1..MaxGlfwWindows

\* what a static call leaves to its caller: a pointer, or the error raised
\* by throwError
Returned(call, pointer) == [call |-> call, outcome |-> "pointer", pointer |-> pointer]
throwError(call) == [call |-> call, outcome |-> "error", pointer |-> 0]

\* variant: initInstance without the test of sInstance; the assignment to the
\* unique_ptr destroys the context it held
ContextInitInstanceUnchecked ==
  /\ Len(constructed) < MaxInstances
  /\ \E glWindow \in GlfwWindows :
       constructed' =
         Append(IF sInstance = 0 THEN constructed
                ELSE [constructed EXCEPT ![sInstance].alive = FALSE],
                [mGlWindow |-> glWindow, alive |-> TRUE])
  /\ sInstance' = Len(constructed')
  /\ contextResult' = Returned("initInstance", sInstance')
  /\ UNCHANGED <<builder, windowVars, statsVars, pipelineVars>>

\* VulkanApplicationContext::initInstance
ContextInitInstance ==
  /\ IF sInstance # 0
       THEN /\ contextResult' = throwError("initInstance")
            /\ UNCHANGED <<sInstance, constructed>>
       ELSE /\ Len(constructed) < MaxInstances
            /\ \E glWindow \in GlfwWindows :
                 constructed' = Append(constructed,
                                       [mGlWindow |-> glWindow, alive |-> TRUE])
            /\ sInstance' = Len(constructed')
            /\ contextResult' = Returned("initInstance", sInstance')
  /\ UNCHANGED <<builder, windowVars, statsVars, pipelineVars>>

\* VulkanApplicationContext::destroyInstance
ContextDestroyInstance ==
  /\ IF sInstance = 0
       THEN /\ contextResult' = throwError("destroyInstance")
            /\ UNCHANGED <<sInstance, constructed>>
       ELSE /\ constructed' = [constructed EXCEPT ![sInstance].alive = FALSE]
            /\ sInstance' = 0
            /\ contextResult' = [call |-> "destroyInstance", outcome |-> "done",
                                 pointer |-> 0]
  /\ UNCHANGED <<builder, windowVars, statsVars, pipelineVars>>

\* VulkanApplicationContext::getInstance
ContextGetInstance ==
  /\ IF sInstance = 0
       THEN contextResult' = throwError("getInstance")
       ELSE contextResult' = Returned("getInstance", sInstance)
  /\ UNCHANGED <<sInstance, constructed, builder, windowVars, statsVars,
                 pipelineVars>>

InitContext ==
  /\ NoBuilder
  /\ NoWindow
  /\ NoStatistics
  /\ NoPipeline
  /\ sInstance = 0
  /\ constructed = << >>
  /\ contextResult = [call |-> "none", outcome |-> "none", pointer |-> 0]

NextContext ==
  \/ ContextInitInstance
  \/ ContextDestroyInstance
  \/ ContextGetInstance

SpecContext == InitContext /\ [][NextContext]_vars

(***************************************************************************)
(* ComputePipeline (pipelines/ComputePipeline.cpp): one pipeline recording *)
(* a dispatch for thread counts of any size a uint32_t can carry.          *)
(***************************************************************************)
Pipelines == {"chunksBuilder", "chunkFieldConstruction", "chunkVoxelCreation",
              "chunkModifyArg", "modifyArg", "initNode", "tagNode", "allocNode"}

\* thread counts: none, one, around a group of 8, and around 2^24, where
\* the floats stop holding every integer
ThreadCounts ==
  {0, 1, 8, 9} \cup { Pow(2, FloatSignificandBits) + d : d \in {0, 1, 3} }

IndirectBuffers == {"indirectFragLengthBuffer", "indirectAllocNumBuffer"}

\* the pipeline records its dispatch into a command buffer that has begun
\* and holds no command yet
PipelineRecordCommand ==
  /\ computePipeline \in Pipelines
  /\ recorded = << >>
  /\ \E threadCountX \in ThreadCounts, threadCountY \in ThreadCounts,
        threadCountZ \in ThreadCounts :
       recorded' = <<recordCommand(computePipeline, threadCountX, threadCountY,
                                   threadCountZ)>>
  /\ UNCHANGED <<computePipeline, builder, windowVars, contextVars, statsVars>>

PipelineRecordIndirectCommand ==
  /\ computePipeline \in Pipelines
  /\ recorded = << >>
  /\ \E indirectBuffer \in IndirectBuffers :
       recorded' = <<recordIndirectCommand(computePipeline, indirectBuffer)>>
  /\ UNCHANGED <<computePipeline, builder, windowVars, contextVars, statsVars>>

InitPipeline ==
  /\ NoBuilder
  /\ NoWindow
  /\ NoContext
  /\ NoStatistics
  /\ computePipeline \in Pipelines
  /\ recorded = << >>

NextPipeline ==
  \/ PipelineRecordCommand
  \/ PipelineRecordIndirectCommand

SpecPipeline == InitPipeline /\ [][NextPipeline]_vars

(***************************************************************************)
(* The build statistics of SvoBuilder::buildScene: the loop over the chunk *)
(* grid with the time each _buildChunk took, for any grid the              *)
(* configuration can give, one with a zero dimension included.             *)
(***************************************************************************)
StatsChunkDims ==
  { d \in (0..MaxChunkDim) \X (0..MaxChunkDim) \X (0..MaxChunkDim) :
      ChunkCount(d) <= MaxChunks }

DurationsMs == 0..MaxDurationMs

\* std::numeric_limits<uint32_t>::max()
NumericLimitsMax == Uint32Range - 1

\* what a uint32_t may hold after a division by zero that did not trap
DivisionByZeroResults == {0, NumericLimitsMax}

\* the three locals are initialised; the loops are entered
StatsBegin ==
  /\ statsPc = "start"
  /\ minTimeMs' = NumericLimitsMax
  /\ maxTimeMs' = 0
  /\ avgTimeMs' = 0
  /\ sumOfDurations' = 0
  /\ statsCur' = <<0, 0, 0>>
  /\ statsPc' = IF ChunkCount(statsChunkDim) = 0 THEN "divide" ELSE "loop"
  /\ UNCHANGED <<statsChunkDim, builder, windowVars, contextVars, pipelineVars>>

\* one pass of the loop body: _buildChunk is timed and the duration enters
\* the three locals
StatsBuildChunk ==
  /\ statsPc = "loop"
  /\ \E duration \in DurationsMs :
       /\ minTimeMs' = Min(minTimeMs, ToUint32(duration))
       /\ maxTimeMs' = Max(maxTimeMs, ToUint32(duration))
       /\ avgTimeMs' = ToUint32(avgTimeMs + ToUint32(duration))
       /\ sumOfDurations' = sumOfDurations + duration
  /\ statsCur' = NextChunk(statsCur, statsChunkDim)
  /\ statsPc' = IF LoopDone(statsCur', statsChunkDim) THEN "divide" ELSE "loop"
  /\ UNCHANGED <<statsChunkDim, builder, windowVars, contextVars, pipelineVars>>

\* avgTimeMs /= _chunkDimX * _chunkDimY * _chunkDimZ, then the two reports.
\* The division of an unsigned integer by zero is undefined: the program
\* traps, or goes on with some value.
StatsReport ==
  /\ statsPc = "divide"
  /\ IF ChunkCount(statsChunkDim) = 0
       THEN \/ /\ statsPc' = "divisionByZero"
               /\ UNCHANGED avgTimeMs
            \/ /\ avgTimeMs' \in DivisionByZeroResults
               /\ statsPc' = "reported"
       ELSE /\ avgTimeMs' = avgTimeMs \div ToUint32(ChunkCount(statsChunkDim))
            /\ statsPc' = "reported"
  /\ UNCHANGED <<statsChunkDim, statsCur, minTimeMs, maxTimeMs, sumOfDurations,
                 builder, windowVars, contextVars, pipelineVars>>

InitStatistics ==
  /\ NoBuilder
  /\ NoWindow
  /\ NoContext
  /\ NoPipeline
  /\ statsPc = "start"
  /\ statsChunkDim \in StatsChunkDims
  /\ statsCur = <<0, 0, 0>>
  /\ minTimeMs = 0
  /\ maxTimeMs = 0
  /\ avgTimeMs = 0
  /\ sumOfDurations = 0

NextStatistics ==
  \/ StatsBegin
  \/ StatsBuildChunk
  \/ StatsReport

SpecStatistics == InitStatistics /\ [][NextStatistics]_vars

(***************************************************************************)
(* Window (window/Window.cpp): the style of the application window.        *)
(***************************************************************************)
WindowStyles == {"kNone", "kFullScreen", "kMaximized", "kHover"}

\* the arguments of glfwSetWindowMonitor for a style: the monitor's full
\* mode, the maximized client area below the title bar, or the windowed
\* size centred in that area
MonitorOf(style) ==
  CASE style = "kFullScreen" -> "monitorFullMode"
    [] style = "kMaximized" -> "maximizedClientArea"
    [] style = "kHover" -> "centredWindowed"

\* Window::setWindowStyle; assert(false) ends the program unless the build
\* defines NDEBUG, in which case the switch falls out and the style is stored
setWindowStyle(w, newStyle, NDEBUG) ==
  IF newStyle = w.mWindowStyle THEN w
  ELSE IF newStyle = "kNone"
         THEN IF NDEBUG THEN [w EXCEPT !.mWindowStyle = newStyle]
                        ELSE [w EXCEPT !.life = "aborted"]
         ELSE [w EXCEPT !.monitor = MonitorOf(newStyle), !.mWindowStyle = newStyle]

\* Window::toggleWindowStyle
toggleWindowStyle(w, NDEBUG) ==
  CASE w.mWindowStyle = "kNone" ->
         IF NDEBUG THEN w ELSE [w EXCEPT !.life = "aborted"]
    [] w.mWindowStyle = "kFullScreen" -> setWindowStyle(w, "kMaximized", NDEBUG)
    [] w.mWindowStyle = "kMaximized" -> setWindowStyle(w, "kHover", NDEBUG)
    [] w.mWindowStyle = "kHover" -> setWindowStyle(w, "kFullScreen", NDEBUG)

\* Window::toggleCursor (showCursor / hideCursor)
toggleCursor(w) ==
  IF w.mCursorState = "kInvisible"
    THEN [w EXCEPT !.mCursorState = "kVisible"]
    ELSE [w EXCEPT !.mCursorState = "kInvisible"]

\* the styles seen over the last consecutive toggles, the style before the
\* first of them included; at most four are kept
Traced(trace, before, after) ==
  LET all == IF trace = << >> THEN <<before, after>> ELSE Append(trace, after)
  IN IF Len(all) > 4 THEN Tail(all) ELSE all

\* Window::Window: a temporary maximized window is created, then the style
\* asked for is applied and stored; the cursor starts hidden
WindowConstruct ==
  /\ window.life = "unconstructed"
  /\ \E windowStyle \in WindowStyles :
       LET created == [life |-> "open", mWindowStyle |-> "kNone",
                       mCursorState |-> "kInvisible", monitor |-> "temporary",
                       constructedWith |-> windowStyle]
           styled == setWindowStyle(created, windowStyle, ndebug)
       IN /\ window' = [styled EXCEPT !.mWindowStyle = windowStyle,
                                      !.mCursorState = "kInvisible"]
          /\ windowCall' = [op |-> "Window", newStyle |-> windowStyle]
  /\ toggleTrace' = << >>
  /\ UNCHANGED <<ndebug, builder, contextVars, statsVars, pipelineVars>>

WindowToggleWindowStyle ==
  /\ window.life = "open"
  /\ window' = toggleWindowStyle(window, ndebug)
  /\ windowCall' = [op |-> "toggleWindowStyle", newStyle |-> "kNone"]
  /\ toggleTrace' = IF window'.life = "open"
                      THEN Traced(toggleTrace, window.mWindowStyle,
                                  window'.mWindowStyle)
                      ELSE toggleTrace
  /\ UNCHANGED <<ndebug, builder, contextVars, statsVars, pipelineVars>>

WindowSetWindowStyle ==
  /\ window.life = "open"
  /\ \E newStyle \in WindowStyles :
       /\ window' = setWindowStyle(window, newStyle, ndebug)
       /\ windowCall' = [op |-> "setWindowStyle", newStyle |-> newStyle]
  /\ toggleTrace' = << >>
  /\ UNCHANGED <<ndebug, builder, contextVars, statsVars, pipelineVars>>

WindowToggleCursor ==
  /\ window.life = "open"
  /\ window' = toggleCursor(window)
  /\ windowCall' = [op |-> "toggleCursor", newStyle |-> "kNone"]
  /\ UNCHANGED <<toggleTrace, ndebug, builder, contextVars, statsVars,
                 pipelineVars>>

\* Window::~Window
WindowDestruct ==
  /\ window.life = "open"
  /\ window' = [window EXCEPT !.life = "destroyed", !.monitor = "none"]
  /\ windowCall' = [op |-> "~Window", newStyle |-> "kNone"]
  /\ UNCHANGED <<toggleTrace, ndebug, builder, contextVars, statsVars,
                 pipelineVars>>

InitWindow ==
  /\ NoBuilder
  /\ NoContext
  /\ NoStatistics
  /\ NoPipeline
  /\ window = [life |-> "unconstructed", mWindowStyle |-> "kNone",
               mCursorState |-> "kInvisible", monitor |-> "none",
               constructedWith |-> "kNone"]
  /\ ndebug \in BOOLEAN
  /\ windowCall = [op |-> "none", newStyle |-> "kNone"]
  /\ toggleTrace = << >>

NextWindow ==
  \/ WindowConstruct
  \/ WindowToggleWindowStyle
  \/ WindowSetWindowStyle
  \/ WindowToggleCursor
  \/ WindowDestruct

SpecWindow == InitWindow /\ [][NextWindow]_vars


(***************************************************************************)
(* Properties.                                                             *)
(***************************************************************************)
IsDispatch(cmd) == cmd.op \in {"dispatch", "dispatchIndirect"}

\* the pipelines of the dispatches of a command buffer, in recording order
Stages(cmds) ==
  LET d == SelectSeq(cmds, IsDispatch)
  IN [i \in 1..Len(d) |-> d[i].pipeline]

CountStage(cmds, pipeline) ==
  Cardinality({ i \in 1..Len(cmds) : IsDispatch(cmds[i]) /\ cmds[i].pipeline = pipeline })

IsShaderBarrier(cmd) ==
  /\ cmd.op = "barrier"
  /\ "COMPUTE_SHADER" \in cmd.srcStage
  /\ "COMPUTE_SHADER" \in cmd.dstStage
  /\ "SHADER_WRITE" \in cmd.srcAccess
  /\ {"SHADER_READ", "SHADER_WRITE"} \subseteq cmd.dstAccess

IsIndirectBarrier(cmd) ==
  /\ cmd.op = "barrier"
  /\ "COMPUTE_SHADER" \in cmd.srcStage
  /\ {"DRAW_INDIRECT", "COMPUTE_SHADER"} \subseteq cmd.dstStage
  /\ "SHADER_WRITE" \in cmd.srcAccess
  /\ "INDIRECT_COMMAND_READ" \in cmd.dstAccess

\* the octree-builder command buffer is examined once recorded (the builder
\* is idle after init or a finished build) and whenever it is submitted
OctreeRecorded == (pc = "idle") \/ (queue = "octree")

\* likewise the fragment-list command buffer
FragmentListRecorded == (pc = "idle") \/ (queue = "fragmentList")

\* C1: when the fragment count read back after the fragment-list submission
\* is 0, _buildChunk returns in that step: nothing is submitted, the
\* allocator is not called, no field image is created, no copy-out command
\* buffer is recorded and the chunks lookup is not written.
C1_EmptyChunkSkips ==
  [][ ( /\ pc = "waitFragmentList"
        /\ timelineFence = "signaled"
        /\ fragmentListInfoBuffer.voxelFragmentCount = 0
        /\ pc' # pc )
      => ( /\ pc' \in {"chunk", "idle"}
           /\ queue' = "idle"
           /\ allocUsed' = allocUsed
           /\ allocations' = allocations
           /\ fieldImages' = fieldImages
           /\ cmdBuffer' = cmdBuffer
           /\ chunksBuffer' = chunksBuffer
           /\ log' = <<"reset", "submitFragmentList", "return">> ) ]_vars

\* an empty chunk has been built and _buildChunk has returned
C1_Witness ==
  /\ log = <<"reset", "submitFragmentList", "return">>
  /\ fragmentListInfoBuffer.voxelFragmentCount = 0
  /\ allocations # << >>

\* the entry is the start of a range the allocator handed out for chunk i
ValidOffsetFor(i, word) ==
  \E k \in 1..Len(allocations) :
    /\ LinearIndex(allocations[k].chunk, chunkDim) + 1 = i
    /\ allocations[k].offset = word * SizeofUint32

\* C2: after buildScene() completes the chunks lookup holds one entry per
\* chunk and every entry is "empty" or the start of a range the allocator
\* handed out for that chunk.
C2_LookupEntriesValid ==
  (pc = "idle" /\ builds >= 1) =>
    /\ Len(chunksBuffer) = ChunkCount(chunkDim)
    /\ \A i \in 1..Len(chunksBuffer) :
         chunksBuffer[i] = Empty \/ ValidOffsetFor(i, chunksBuffer[i])

\* C3: the byte ranges the allocator handed out over the session are
\* pairwise disjoint and every offset is a multiple of 4.
C3_AllocationsDisjointAligned ==
  /\ \A i, j \in 1..Len(allocations) :
       i < j => \/ allocations[i].offset + allocations[i].length <= allocations[j].offset
                \/ allocations[j].offset + allocations[j].length <= allocations[i].offset
  /\ \A i \in 1..Len(allocations) :
       /\ allocations[i].offset % 4 = 0
       /\ allocations[i].length > 0

\* ranges were handed out in two different buildScene() runs
C3_Witness ==
  \E i, j \in 1..Len(allocations) :
    /\ i < j
    /\ allocations[i].build # allocations[j].build
    /\ allocations[i].chunk = allocations[j].chunk

Last(q) == q[Len(q)]

CopiesOf(cmds) == { i \in 1..Len(cmds) : cmds[i].op = "copy" }

C5_LevelCount ==
  OctreeRecorded =>
    /\ Pow(2, voxelLevelCount) = chunkVoxelDim
    /\ CountStage(octreeCreationCommandBuffer, "initNode") = voxelLevelCount
    /\ CountStage(octreeCreationCommandBuffer, "tagNode") = voxelLevelCount

\* the octree builder has run for a chunk of three levels
C5_Witness ==
  /\ pc = "waitOctree"
  /\ timelineFence = "signaled"
  /\ voxelLevelCount = 3
  /\ octreeBufferLengthBuffer > 8

\* C6: the dispatches of the octree-builder command buffer are the pre
\* modify-arg stage, then per level init-node, tag-node and, except at the
\* last level, alloc-node and modify-arg; alloc-node and modify-arg occur
\* levelCount - 1 times, and the levels follow one another.
C6_StageOrder ==
  OctreeRecorded =>
    LET st == Stages(octreeCreationCommandBuffer)
        n  == voxelLevelCount
    IN /\ Len(st) = 1 + 2 * n + 2 * (n - 1)
       /\ st[1] = "chunkModifyArg"
       /\ \A L \in 0..(n - 1) :
            /\ st[2 + 4 * L] = "initNode"
            /\ st[3 + 4 * L] = "tagNode"
            /\ L # n - 1 => /\ st[4 + 4 * L] = "allocNode"
                            /\ st[5 + 4 * L] = "modifyArg"
       /\ CountStage(octreeCreationCommandBuffer, "allocNode") = n - 1
       /\ CountStage(octreeCreationCommandBuffer, "modifyArg") = n - 1
       /\ CountStage(octreeCreationCommandBuffer, "chunkModifyArg") = 1

\* a command buffer of at least two levels has been recorded and submitted
C6_Witness ==
  /\ queue = "octree"
  /\ voxelLevelCount >= 2
  /\ CountStage(octreeCreationCommandBuffer, "allocNode") >= 1

\* the indirect-argument buffers a stage writes
ArgsWritten(pipeline) ==
  CASE pipeline = "chunkModifyArg" -> {"indirectFragLengthBuffer"}
    [] pipeline = "modifyArg" -> {"indirectAllocNumBuffer"}
    [] OTHER -> {}

\* C7: in the octree-builder command buffer every stage that writes an
\* indirect-argument buffer is followed, before the next indirect dispatch,
\* by a shader-write to indirect-command-read barrier whose destination
\* stages include the indirect-read and the compute stage; no indirect
\* dispatch reads arguments written earlier without such a barrier between.
C7_IndirectBarriers ==
  OctreeRecorded =>
    LET cb == octreeCreationCommandBuffer
    IN \A i, j \in 1..Len(cb) :
         ( /\ i < j
           /\ IsDispatch(cb[i])
           /\ cb[j].op = "dispatchIndirect"
           /\ \/ cb[j].buffer \in ArgsWritten(cb[i].pipeline)
              \/ /\ ArgsWritten(cb[i].pipeline) # {}
                 /\ \A k \in (i + 1)..(j - 1) : cb[k].op # "dispatchIndirect" )
         => \E k \in (i + 1)..(j - 1) : IsIndirectBarrier(cb[k])

\* a per-level modify-arg stage is recorded and an indirect dispatch follows
C7_Witness ==
  /\ queue = "octree"
  /\ \E i, j \in 1..Len(octreeCreationCommandBuffer) :
       /\ i < j
       /\ octreeCreationCommandBuffer[i].pipeline = "modifyArg"
       /\ octreeCreationCommandBuffer[j].op = "dispatchIndirect"
       /\ octreeCreationCommandBuffer[j].buffer = "indirectAllocNumBuffer"

\* C8: between every two consecutive dispatches of the octree-builder
\* command buffer there is a compute-to-compute barrier from shader-write
\* to shader-read|shader-write.
C8_ShaderBarriers ==
  OctreeRecorded =>
    LET cb == octreeCreationCommandBuffer
    IN \A i, j \in 1..Len(cb) :
         ( /\ i < j
           /\ IsDispatch(cb[i])
           /\ IsDispatch(cb[j])
           /\ \A k \in (i + 1)..(j - 1) : ~IsDispatch(cb[k]) )
         => \E k \in (i + 1)..(j - 1) : IsShaderBarrier(cb[k])

\* all five kinds of consecutive stage pairs are recorded
C8_Witness ==
  /\ queue = "octree"
  /\ LET st == Stages(octreeCreationCommandBuffer)
     IN \A pair \in { <<"chunkModifyArg", "initNode">>, <<"initNode", "tagNode">>,
                      <<"tagNode", "allocNode">>, <<"allocNode", "modifyArg">>,
                      <<"modifyArg", "initNode">> } :
          \E i \in 1..(Len(st) - 1) : <<st[i], st[i + 1]>> = pair

\* C9: the fragment-list command buffer holds exactly two dispatches, field
\* construction over (chunkVoxelDim+1)^3 threads and then voxel creation over
\* chunkVoxelDim^3 threads, with a compute barrier from shader-write to
\* shader-read|shader-write recorded between them.
C9_FragmentListContract ==
  FragmentListRecorded =>
    LET cb == fragmentListCreationCommandBuffer
        d  == SelectSeq(cb, IsDispatch)
        v  == chunkVoxelDim
    IN /\ Len(d) = 2
       /\ d[1].op = "dispatch" /\ d[1].pipeline = "chunkFieldConstruction"
       /\ d[1].threads = <<v + 1, v + 1, v + 1>>
       /\ d[2].op = "dispatch" /\ d[2].pipeline = "chunkVoxelCreation"
       /\ d[2].threads = <<v, v, v>>
       /\ \A a \in 1..2 : \A x \in 1..3 :
            /\ d[a].groups[x] * 8 >= d[a].threads[x]
            /\ (d[a].groups[x] - 1) * 8 < d[a].threads[x]
       /\ \E i, k, j \in 1..Len(cb) :
            /\ i < k /\ k < j
            /\ cb[i] = d[1] /\ cb[j] = d[2]
            /\ IsShaderBarrier(cb[k])

\* the fragment-list command buffer has run and produced fragments
C9_Witness ==
  /\ pc = "waitFragmentList"
  /\ timelineFence = "signaled"
  /\ fragmentListInfoBuffer.voxelFragmentCount > 0
  /\ chunkVoxelDim = 8

\* C10: when the fragment-list command buffer is submitted the transient
\* state is counter 1, alloc window [0, 8), both indirect arguments (1,1,1),
\* fragment count 0 with voxelResolution chunkVoxelDim, chunks-info naming
\* the grid and this chunk, and octree length 8.
C10_ResetAtSubmit ==
  queue = "fragmentList" =>
    /\ counterBuffer = 1
    /\ octreeBuildInfoBuffer = [allocBegin |-> 0, allocNum |-> 8]
    /\ indirectAllocNumBuffer = <<1, 1, 1>>
    /\ indirectFragLengthBuffer = <<1, 1, 1>>
    /\ fragmentListInfoBuffer =
         [voxelResolution |-> chunkVoxelDim, voxelFragmentCount |-> 0]
    /\ chunksInfoBuffer = [chunksDim |-> chunkDim, currentlyWritingChunk |-> cur]
    /\ octreeBufferLengthBuffer = 8

\* the submission follows the build of a non-empty chunk of the same run
\* whose octree grew beyond the root block
C10_Witness ==
  /\ queue = "fragmentList"
  /\ cur # <<0, 0, 0>>
  /\ allocations # << >>
  /\ Last(allocations).build = builds
  /\ Last(allocations).length > 32

\* (z, y, x) of a is lexicographically smaller than (z, y, x) of b
RowMajorBefore(a, b) ==
  \/ a[3] < b[3]
  \/ a[3] = b[3] /\ a[2] < b[2]
  \/ a[3] = b[3] /\ a[2] = b[2] /\ a[1] < b[1]

AllChunks == (0..(chunkDim[1] - 1)) \X (0..(chunkDim[2] - 1)) \X (0..(chunkDim[3] - 1))

\* C11: buildScene() calls _buildChunk exactly once for every coordinate of
\* the grid, x innermost, y middle, z outermost: a chunk is built before
\* another iff its (z, y, x) is lexicographically smaller.
C11_RowMajorOrder ==
  /\ \A i, j \in 1..Len(visited) :
       i < j <=> RowMajorBefore(visited[i], visited[j])
  /\ \A i \in 1..Len(visited) : visited[i] \in AllChunks
  /\ (pc = "idle" /\ builds >= 1) =>
       /\ Len(visited) = ChunkCount(chunkDim)
       /\ \A c \in AllChunks : \E i \in 1..Len(visited) : visited[i] = c
  /\ pc = "chunk" =>
       /\ cur \in AllChunks
       /\ \A i \in 1..Len(visited) : RowMajorBefore(visited[i], cur)
       /\ \A c \in AllChunks :
            RowMajorBefore(c, cur) => \E i \in 1..Len(visited) : visited[i] = c

\* a run over a grid with two chunks along x and along y has finished
C11_Witness ==
  /\ pc = "idle"
  /\ builds >= 1
  /\ chunkDim[1] = 2 /\ chunkDim[2] = 2
  /\ Len(visited) = 4

\* C12: every submission that signals the fence is followed by a wait on the
\* fence and a reset of it before the CPU takes any further step of
\* _buildChunk; the fence is unsignaled whenever a command buffer is
\* submitted with it; the fragment count is read back only after the first
\* wait and the octree length only after the second; only the completion of
\* a submission signals the fence.
C12_FenceProtocol ==
  [][ /\ (queue' \in {"fragmentList", "octree"} /\ queue' # queue) =>
           timelineFence' = "unsignaled"
      /\ (pc = "chunk" /\ pc' # pc) => timelineFence = "unsignaled"
      /\ (pc = "waitFragmentList" /\ pc' # pc) =>
           /\ timelineFence = "signaled" /\ queue = "idle"
           /\ timelineFence' = "unsignaled"
      /\ (pc = "waitOctree" /\ pc' # pc) =>
           /\ timelineFence = "signaled" /\ queue = "idle"
           /\ timelineFence' = "unsignaled"
      /\ (timelineFence = "unsignaled" /\ timelineFence' = "signaled") =>
           /\ queue \in {"fragmentList", "octree"}
           /\ queue' = "idle"
           /\ pc' = pc
    ]_vars

\* in a rebuild, the octree submission of a chunk has signaled the fence a
\* second time and the CPU has not yet taken its next step
C12_Witness ==
  /\ pc = "waitOctree"
  /\ queue = "idle"
  /\ timelineFence = "signaled"
  /\ builds = 1

\* the commands of cmds that dispatch the given pipeline
DispatchesOf(cmds, pipeline) ==
  { i \in 1..Len(cmds) : cmds[i].op = "dispatch" /\ cmds[i].pipeline = pipeline }

\* C14: the lookup entry of a chunk is written only after the chunk's octree
\* has been copied into the shared buffer: while the copy-out command buffer
\* is executing, its chunks-builder dispatch has completed only if its
\* buffer copy has completed.
C14_LookupAfterCopy ==
  (queue = "copyOut" \/ pc = "waitIdle") =>
    \A d \in DispatchesOf(cmdBuffer, "chunksBuilder") :
      d \in gpuDone => \A k \in CopiesOf(cmdBuffer) : k < d => k \in gpuDone

\* C13: the CPU takes a step of the build only while nothing is pending on
\* the GPU, so a submission is made only when none is outstanding and the
\* transient buffers are written by the CPU only then; the build of a chunk
\* begins only after every command of the previous copy-out has completed
\* and every allocation made so far has been copied into.
C13_StrictlySequential ==
  [][ /\ (queue' # queue /\ queue' # "idle") => queue = "idle"
      /\ pc' # pc => queue = "idle"
      /\ (<<transient, octreeBufferWriteOffsetBuffer>>' #
            <<transient, octreeBufferWriteOffsetBuffer>> /\ queue # "idle") =>
           pc' = pc
      /\ (pc = "chunk" /\ pc' # pc) =>
           /\ AllDone(cmdBuffer, gpuDone)
           /\ \A i \in 1..Len(allocations) :
                \E region \in appendedOctreeBuffer :
                  /\ region.offset = allocations[i].offset
                  /\ region.size = allocations[i].length
    ]_vars

\* the build of a chunk is about to begin after the previous chunk of the
\* same run was copied out
C13_Witness ==
  /\ pc = "chunk"
  /\ Len(visited) >= 1
  /\ Len(allocations) >= 1
  /\ Last(allocations).chunk = visited[Len(visited)]
  /\ Last(allocations).build = builds
  /\ gpuDone # {}

\* the allocations made for a chunk in a run of buildScene
AllocationsFor(chunk, build) ==
  { i \in 1..Len(allocations) :
      allocations[i].chunk = chunk /\ allocations[i].build = build }

\* C15: the allocator is called once for every chunk with a fragment count
\* above 0 (and not for an empty one), after the octree-builder fence wait,
\* with size octreeBufferLength * 4; the one copy recorded has source offset
\* 0, destination offset the offset the allocator returned, and size
\* octreeBufferLength * 4, from the per-chunk buffer to the shared buffer.
C15_AllocationAndCopy ==
  [][ /\ allocations' # allocations =>
           /\ pc = "waitOctree" /\ timelineFence = "signaled" /\ queue = "idle"
           /\ Len(allocations') = Len(allocations) + 1
           /\ \A i \in 1..Len(allocations) : allocations'[i] = allocations[i]
           /\ Last(allocations').length = octreeBufferLengthBuffer * 4
           /\ Last(allocations').chunk = cur
           /\ AllocationsFor(cur, builds) = {}
      /\ (pc = "waitOctree" /\ pc' = "waitIdle") =>
           /\ Len(allocations') = Len(allocations) + 1
           /\ Cardinality(CopiesOf(cmdBuffer')) = 1
           /\ \A k \in CopiesOf(cmdBuffer') :
                /\ cmdBuffer'[k].copySrc = "chunkOctreeBuffer"
                /\ cmdBuffer'[k].copyDst = "appendedOctreeBuffer"
                /\ cmdBuffer'[k].srcOffset = 0
                /\ cmdBuffer'[k].dstOffset = Last(allocations').offset
                /\ cmdBuffer'[k].size = octreeBufferLengthBuffer * 4
      /\ (pc \in {"waitFragmentList", "waitIdle"} /\ pc' \in {"chunk", "idle"}) =>
           Cardinality(AllocationsFor(cur, builds)) =
             IF fragmentListInfoBuffer.voxelFragmentCount > 0 THEN 1 ELSE 0
    ]_vars

\* a copy-out to an offset above 0 is pending
C15_Witness ==
  /\ pc = "waitIdle"
  /\ queue = "copyOut"
  /\ gpuDone = {}
  /\ Last(allocations).offset > 0

\* C16: while the copy-out command buffer with the chunks-builder dispatch
\* is pending, the write-offset buffer holds the byte offset the allocator
\* returned for the chunk divided by 4 and the chunks-info buffer names that
\* chunk; once the dispatch has completed, the chunk's lookup entry is that
\* offset divided by 4.
C16_LookupOffset ==
  /\ queue = "copyOut" =>
       /\ DispatchesOf(cmdBuffer, "chunksBuilder") # {}
       /\ Last(allocations).chunk = cur
       /\ Last(allocations).build = builds
       /\ octreeBufferWriteOffsetBuffer = Last(allocations).offset \div 4
       /\ octreeBufferWriteOffsetBuffer * 4 = Last(allocations).offset
       /\ chunksInfoBuffer.currentlyWritingChunk = cur
       /\ chunksInfoBuffer.chunksDim = chunkDim
  /\ (pc = "waitIdle" /\ DispatchesOf(cmdBuffer, "chunksBuilder") \subseteq gpuDone) =>
       chunksBuffer[LinearIndex(cur, chunkDim) + 1] = Last(allocations).offset \div 4

\* the entry of a chunk whose allocation does not start at 0 has been written
C16_Witness ==
  /\ pc = "waitIdle"
  /\ queue = "idle"
  /\ Last(allocations).offset > 0
  /\ chunksBuffer[LinearIndex(cur, chunkDim) + 1] * 4 = Last(allocations).offset

\* the octree build of the running chunk has completed and the CPU has not
\* gone on yet
OctreeBuilt == pc = "waitOctree" /\ timelineFence = "signaled"

\* the writes of one stage, in level order
WritesOf(stage) == SelectSeq(octreeWrites, LAMBDA w : w.stage = stage)

C18_WindowProgression ==
  OctreeBuilt =>
    LET W == WritesOf("initNode")
        A == WritesOf("allocNode")
    IN /\ Len(W) = voxelLevelCount
       /\ Len(A) = voxelLevelCount - 1
       /\ W[1].begin = 0 /\ W[1].num = 8
       /\ \A k \in 1..Len(A) :
            /\ A[k].level = k - 1 /\ W[k].level = k - 1
            /\ A[k].begin = W[k].begin /\ A[k].num = W[k].num
            /\ A[k].tagged >= 1
            /\ W[k + 1].begin = W[k].begin + W[k].num
            /\ W[k + 1].num = 8 * A[k].tagged
            /\ W[k + 1].begin > W[k].begin
       /\ \A i, j \in 1..Len(W) :
            i < j => W[i].begin + W[i].num <= W[j].begin
       /\ octreeBuildInfoBuffer =
            [allocBegin |-> Last(W).begin, allocNum |-> Last(W).num]
       /\ octreeBufferLengthBuffer = Last(W).begin + Last(W).num

\* three levels were built and the window of level 1 held two blocks
C18_Witness ==
  /\ OctreeBuilt
  /\ voxelLevelCount = 3
  /\ Len(WritesOf("initNode")) = 3
  /\ WritesOf("initNode")[2].num = 16

\* the voxel-creation dispatch of the fragment-list command buffer
VoxelCreationDispatches ==
  DispatchesOf(fragmentListCreationCommandBuffer, "chunkVoxelCreation")

\* C19: the fragment count is 0 when the fragment-list command buffer is
\* submitted and, after voxel creation has run, at most chunkVoxelDim^3, the
\* number of entries the fragment-list buffer was created for; this also
\* when chunkVoxelDim is below the work-group edge 8 and the dispatch
\* launches more threads than the chunk has cells.
C19_FragmentCountBound ==
  /\ queue = "fragmentList" => fragmentListInfoBuffer.voxelFragmentCount = 0
  /\ pc \in {"waitFragmentList", "waitOctree", "waitIdle"} =>
       /\ fragmentListInfoBuffer.voxelFragmentCount >= 0
       /\ fragmentListInfoBuffer.voxelFragmentCount <= FragmentListCapacity
       /\ fragmentListInfoBuffer.voxelFragmentCount
            <= chunkVoxelDim * chunkVoxelDim * chunkVoxelDim

\* every cell of a chunk with an edge below 8 yielded a fragment, from a
\* dispatch that launched more threads than the chunk has cells
C19_Witness ==
  /\ pc = "waitFragmentList"
  /\ timelineFence = "signaled"
  /\ chunkVoxelDim < 8
  /\ fragmentListInfoBuffer.voxelFragmentCount = FragmentListCapacity
  /\ \A i \in VoxelCreationDispatches :
       fragmentListCreationCommandBuffer[i].groups[1] * 8 > chunkVoxelDim

\* C21: buildScene() and update() never reset or free allocator state: the
\* bytes-used statistic never decreases, ranges handed out are never taken
\* back, every range starts at or after the end of every range handed out
\* before it (in the same or an earlier run), and a chunk that is built
\* again gets a range of its own.
C21_RepeatedBuildsAppend ==
  [][ /\ allocUsed' >= allocUsed
      /\ Len(allocations') >= Len(allocations)
      /\ \A i \in 1..Len(allocations) : allocations'[i] = allocations[i]
      /\ \A i, j \in 1..Len(allocations') :
           i < j =>
             /\ allocations'[i].build <= allocations'[j].build
             /\ allocations'[i].offset + allocations'[i].length
                  <= allocations'[j].offset
             /\ allocations'[i].chunk = allocations'[j].chunk =>
                  allocations'[i].offset # allocations'[j].offset
      /\ \A i \in 1..Len(allocations') :
           allocations'[i].offset + allocations'[i].length <= allocUsed'
    ]_vars

\* a chunk was given a range in a run that update() or buildScene() started
\* after the run that gave it its first one
C21_Witness ==
  \E i, j \in 1..Len(allocations) :
    /\ allocations[i].chunk = allocations[j].chunk
    /\ allocations[i].build = 0
    /\ allocations[j].build = 1
    /\ allocations[j].offset >= allocations[i].offset + allocations[i].length

\* C22: update() does not invalidate what was written: every byte range of
\* the shared octree buffer that was filled keeps its contents in every later
\* step, those of update() and of the rebuild it starts included; the step
\* that re-records the command buffers makes no allocator call and writes
\* neither the shared octree buffer nor the chunks lookup, and records the
\* same commands again.
C22_RebuildPreservesData ==
  [][ /\ \A region \in appendedOctreeBuffer : region \in appendedOctreeBuffer'
      /\ (pc = "idle" /\ pc' = "chunk") =>
           /\ UNCHANGED <<allocUsed, allocations, appendedOctreeBuffer,
                          chunksBuffer, transient, fieldImages>>
           /\ fragmentListCreationCommandBuffer'
                = recordFragmentListCreationCommandBuffer(chunkVoxelDim)
           /\ octreeCreationCommandBuffer'
                = recordOctreeCreationCommandBuffer(voxelLevelCount)
    ]_vars

\* the shared buffer holds an octree copied before an update() and one
\* copied by the rebuild the update() started
C22_Witness ==
  /\ builds = 1
  /\ allocatedCommandBuffers > 2
  /\ \E old, new \in appendedOctreeBuffer :
       /\ old.data.build = 0
       /\ new.data.build = 1
       /\ old.data.chunk = new.data.chunk

\* C27: the builder never holds more than 2 command buffers allocated from
\* the pool and not freed (one fragment-list, one octree), and none after
\* the destructor.
C27_CommandBuffersFreed ==
  /\ allocatedCommandBuffers <= 2
  /\ pc = "destroyed" => allocatedCommandBuffers = 0

\* the slots alloc-node found tagged, level by level
TaggedPerLevel == [k \in 1..Len(WritesOf("allocNode")) |-> WritesOf("allocNode")[k].tagged]

\* the octree build ran on the field that marks the 8 corner voxels
CornerScenario ==
  /\ OctreeBuilt
  /\ fragmentListInfoBuffer.voxelFragmentCount = Cardinality(CornerField(chunkVoxelDim))
  /\ \A k \in 1..Len(TaggedPerLevel) :
       TaggedPerLevel[k] = TagsOfField(CornerField(chunkVoxelDim), voxelLevelCount)[k]

C26_OctreeFitsChunkBuffer ==
  /\ OctreeBuilt => octreeBufferLengthBuffer <= ChunkOctreeBufferCapacity
  /\ \A i \in 1..Len(octreeWrites) :
       octreeWrites[i].begin + octreeWrites[i].num <= ChunkOctreeBufferCapacity
  /\ queue = "copyOut" =>
       \A k \in CopiesOf(cmdBuffer) :
         cmdBuffer[k].srcOffset + cmdBuffer[k].size <= ChunkOctreeBufferCapacity * 4

\* C29: every byte offset the allocator returns and every size requested
\* from it fits the 32-bit unsigned range, so the offset the orchestrator
\* keeps, copies to and divides by 4 is the true offset: 4 times the lookup
\* entry recorded is the byte offset of the chunk's range, and no range ends
\* past the size of the shared buffer.
C29_OffsetsInRange ==
  /\ \A i \in 1..Len(allocations) :
       /\ allocations[i].offset < Uint32Range
       /\ allocations[i].length < Uint32Range
       /\ allocations[i].offset + allocations[i].length <= AppendedOctreeBufferSize
  /\ queue = "copyOut" =>
       /\ octreeBufferLengthBuffer * 4 = Last(allocations).length
       /\ 4 * octreeBufferWriteOffsetBuffer = Last(allocations).offset
       /\ \A k \in CopiesOf(cmdBuffer) :
            /\ cmdBuffer[k].dstOffset = Last(allocations).offset
            /\ cmdBuffer[k].dstOffset + cmdBuffer[k].size <= AppendedOctreeBufferSize
  /\ (pc = "waitIdle" /\ DispatchesOf(cmdBuffer, "chunksBuilder") \subseteq gpuDone) =>
       4 * chunksBuffer[LinearIndex(cur, chunkDim) + 1] = Last(allocations).offset
  /\ \A region \in appendedOctreeBuffer :
       region.offset + region.size <= AppendedOctreeBufferSize

\* the range that ends the pool has been handed out and copied into
C29_Witness ==
  /\ pc = "waitIdle"
  /\ queue = "idle"
  /\ Last(allocations).offset + Last(allocations).length = AppendedOctreeBufferSize
  /\ 4 * chunksBuffer[LinearIndex(cur, chunkDim) + 1] = Last(allocations).offset

\* C30: a window constructed with a style other than kNone never has the
\* style kNone; toggleWindowStyle moves kFullScreen to kMaximized, kMaximized
\* to kHover and kHover to kFullScreen, so three consecutive toggles restore
\* the style; setWindowStyle with the current style changes nothing, and
\* setWindowStyle with a style other than kNone leaves that style.
C30_WindowStyleMachine ==
  /\ []((window.life = "open" /\ window.constructedWith # "kNone")
          => window.mWindowStyle # "kNone")
  /\ []((Len(toggleTrace) = 4 /\ toggleTrace[1] # "kNone")
          => toggleTrace[4] = toggleTrace[1])
  /\ [][(window.life = "open" /\ window'.life = "open") =>
          /\ (windowCall'.op = "toggleWindowStyle"
                /\ window.mWindowStyle # "kNone") =>
               window'.mWindowStyle =
                 (CASE window.mWindowStyle = "kFullScreen" -> "kMaximized"
                    [] window.mWindowStyle = "kMaximized" -> "kHover"
                    [] window.mWindowStyle = "kHover" -> "kFullScreen")
          /\ (windowCall'.op = "setWindowStyle"
                /\ windowCall'.newStyle = window.mWindowStyle) =>
               window' = window
          /\ (windowCall'.op = "setWindowStyle"
                /\ windowCall'.newStyle # "kNone") =>
               window'.mWindowStyle = windowCall'.newStyle]_vars

\* the context objects that exist
LiveContexts == { i \in 1..Len(constructed) : constructed[i].alive }

\* C25: initInstance while an instance exists raises an error and leaves
\* the instance as it is; getInstance and destroyInstance raise an error when
\* there is no instance; at most one context object exists at any time, and
\* it is the one made by the last initInstance that succeeded, which is what
\* getInstance returns.
C25_SingletonLifeCycle ==
  /\ [](/\ Cardinality(LiveContexts) <= 1
        /\ LiveContexts = IF sInstance = 0 THEN {} ELSE {Len(constructed)}
        /\ contextResult.outcome = "pointer" =>
             /\ contextResult.pointer = Len(constructed)
             /\ contextResult.pointer = sInstance)
  /\ [][/\ (contextResult'.call = "initInstance" /\ sInstance # 0) =>
             /\ contextResult'.outcome = "error"
             /\ sInstance' = sInstance
             /\ constructed' = constructed
        /\ (contextResult'.call = "initInstance" /\ sInstance = 0) =>
             /\ contextResult'.outcome = "pointer"
             /\ Len(constructed') = Len(constructed) + 1
        /\ (contextResult'.call \in {"getInstance", "destroyInstance"}
              /\ sInstance = 0) =>
             /\ contextResult'.outcome = "error"
             /\ sInstance' = 0
             /\ constructed' = constructed
        /\ (contextResult'.call = "getInstance" /\ sInstance # 0) =>
             /\ contextResult'.pointer = sInstance
             /\ sInstance' = sInstance]_vars

\* a second initInstance was refused while the second context, made after
\* the first was destroyed, exists
C25_Witness ==
  /\ contextResult.call = "initInstance"
  /\ contextResult.outcome = "error"
  /\ sInstance = 2
  /\ ~constructed[1].alive
  /\ constructed[2].alive

\* C28: a direct dispatch is recorded with, on every axis, the least count
\* of groups whose threads cover the thread count asked for; a thread count
\* of (1,1,1) is recorded as one group; an indirect dispatch reads its
\* counts at byte offset 0 of the buffer given.
C28_DispatchSizing ==
  \A i \in 1..Len(recorded) :
    /\ recorded[i].op = "dispatch" =>
         /\ \A axis \in 1..3 :
              LET t == recorded[i].threads[axis]
                  w == WorkGroupSize(recorded[i].pipeline)[axis]
                  g == recorded[i].groups[axis]
              IN /\ g * w >= t
                 /\ g = 0 \/ (g - 1) * w < t
         /\ recorded[i].threads = <<1, 1, 1>> => recorded[i].groups = <<1, 1, 1>>
    /\ recorded[i].op = "dispatchIndirect" => recorded[i].offset = 0

\* C24: for every chunk grid, one with a zero dimension included,
\* buildScene reaches its report, and the figures reported are the least,
\* the greatest and the floor of the mean of the durations of all X*Y*Z
\* chunks, with min <= average <= max.
C24_BuildStatistics ==
  /\ statsPc # "divisionByZero"
  /\ statsPc = "reported" =>
       /\ minTimeMs <= avgTimeMs
       /\ avgTimeMs <= maxTimeMs
       /\ avgTimeMs * ChunkCount(statsChunkDim) <= sumOfDurations
       /\ sumOfDurations < (avgTimeMs + 1) * ChunkCount(statsChunkDim)

=============================================================================
